---- MODULE Spec2Model ----
(***************************************************************************)
(* A model of datafusion-gcs: the ObjectStore / ObjectReader adapter over  *)
(* the cloud_storage client (src/src/object_store/gcs.rs).                  *)
(*                                                                         *)
(* Strings are sequences of one-character strings, so that split_once,     *)
(* format! and the path conventions are computed and not assumed.          *)
(*                                                                         *)
(* SpecAsync      : the async trait methods list_file, list_dir and         *)
(*                  chunk_reader, each one atomic for its caller.          *)
(* SpecSync       : sync_chunk_reader, the blocking bridge: two caller     *)
(*                  threads, their worker threads, one mpsc channel per    *)
(*                  call and the clock of recv_timeout.                    *)
(* SpecBridge     : SpecSync under calls that take each branch of the      *)
(*                  worker once per file.                                  *)
(* FairSpecCaller : SpecBridge, the caller's thread scheduled, time passing.*)
(* FairSpecWorker : SpecBridge, the worker's thread scheduled.             *)
(***************************************************************************)
EXTENDS Integers, Sequences, FiniteSets, TLC

VARIABLES
    lastCall,   \* the async trait call made last, with its inputs
    request,    \* the listing request handed to the backend by that call
    outcome,    \* how that call ended for its caller
    pc,         \* per sync call: the calling thread's position
    args,       \* per sync call: file path, start, length
    worker,     \* per sync call: the spawned worker thread's position
    chan,       \* per sync call: the messages in flight in its mpsc channel
    txAlive,    \* per sync call: the Sender has not been dropped
    rxAlive,    \* per sync call: the Receiver has not been dropped
    elapsed,    \* per sync call: seconds the caller has spent in recv_timeout
    result      \* per sync call: what sync_chunk_reader returned

asyncVars == <<lastCall, request, outcome>>
syncVars  == <<pc, args, worker, chan, txAlive, rxAlive, elapsed, result>>
vars      == <<lastCall, request, outcome,
               pc, args, worker, chan, txAlive, rxAlive, elapsed, result>>

(***************************************************************************)
(* Bounds                                                                  *)
(***************************************************************************)
MaxRestLen == 3     \* characters of a URI after its scheme part
MaxPages   == 3     \* pages of one listing response
MaxStart   == 1     \* largest start offset of a chunk read
MaxLength  == 2     \* largest length of a chunk read

(***************************************************************************)
(* Strings                                                                 *)
(***************************************************************************)
Slash == <<"/">>

\* the pattern of uri.split_once("gcs://")
Scheme == <<"g", "c", "s", ":", "/", "/">>

\* s has pat at (1-based) position i
MatchesAt(s, pat, i) ==
    /\ i >= 1
    /\ i + Len(pat) - 1 <= Len(s)
    /\ SubSeq(s, i, i + Len(pat) - 1) = pat

StartsWith(s, pat) == MatchesAt(s, pat, 1)

Contains(s, pat) == \E i \in 1..(Len(s) + 1) : MatchesAt(s, pat, i)

\* str::split_once: split at the FIRST occurrence of pat, wherever it is
SplitOnce(s, pat) ==
    IF Contains(s, pat)
    THEN LET i == CHOOSE k \in 1..(Len(s) + 1) :
                      /\ MatchesAt(s, pat, k)
                      /\ \A j \in 1..(k - 1) : ~MatchesAt(s, pat, j)
         IN  [found |-> TRUE,
              before |-> SubSeq(s, 1, i - 1),
              after  |-> SubSeq(s, i + Len(pat), Len(s))]
    ELSE [found |-> FALSE, before |-> <<>>, after |-> <<>>]

\* match x.split_once('/') { Some((a, b)) => (a, b), None => (x, "") }
SplitBucket(x) ==
    LET sp == SplitOnce(x, Slash)
    IN  IF sp.found THEN <<sp.before, sp.after>> ELSE <<x, <<>>>>

\* format!("{}/{}", bucket, name)
FormatPath(bucket, name) == bucket \o Slash \o name

(***************************************************************************)
(* Errors (src/src/error.rs) and std::io::Error                            *)
(***************************************************************************)
\* the variants of enum GCSError
GCSErrorVariants == {"NotImplemented", "GCS"}

NoError == [kind |-> "None", inner |-> "None", desc |-> "None"]

\* std::io::Error::new(kind, GCSError::<inner>(desc))
IoError(kind, inner, desc) == [kind |-> kind, inner |-> inner, desc |-> desc]

\* std::io::Error::new(ErrorKind::Other, GCSError::GCS(..))
RemoteStoreError(desc) == IoError("Other", "GCS", desc)

(***************************************************************************)
(* The backend's listing response: pages of object records                 *)
(***************************************************************************)
Obj1 == [name |-> <<"k">>, size |-> 1, updated |-> 7]
Obj2 == [name |-> <<"d", "/", "m">>, size |-> 2, updated |-> 8]
Obj3 == [name |-> <<"n">>, size |-> 0, updated |-> 9]

ErrPage == [ok |-> FALSE, items |-> <<>>]
OkPage(items) == [ok |-> TRUE, items |-> items]

\* what one item of the stream returned by client.object().list() can be
PageResults == {ErrPage, OkPage(<<Obj1>>), OkPage(<<Obj2, Obj3>>)}

SeqsUpTo(S, n) == UNION {[1..k -> S] : k \in 0..n}

PageSeqs == SeqsUpTo(PageResults, MaxPages)

\* the URI strings handed to list_file
UriHeads == {<<>>, <<"x">>}
UriSchemes == {Scheme, <<"g", "c", "s", ":", "/">>, <<"s", "3", ":", "/", "/">>, <<>>}
UriRests == SeqsUpTo({"b", "/"}, MaxRestLen)
Uris == {h \o sch \o r : h \in UriHeads, sch \in UriSchemes, r \in UriRests}

(***************************************************************************)
(* list_file                                                               *)
(***************************************************************************)
NoRequest == [issued |-> FALSE, bucket |-> <<>>, prefix |-> <<>>]

\* client.object().list(&bucket, list_request) with list_request.prefix = Some(prefix)
ListRequest(bucket, prefix) == [issued |-> TRUE, bucket |-> bucket, prefix |-> prefix]

\* Ok(FileMeta { sized_file: SizedFile { path, size }, last_modified: Some(o.updated) })
OkEntry(bucket, o) ==
    [ok |-> TRUE,
     meta |-> [path |-> FormatPath(bucket, o.name), size |-> o.size,
               last_modified |-> o.updated],
     err |-> NoError]

\* r.unwrap_or_default(): a failed page becomes the default, empty, ObjectList
UnwrapOrDefault(r) == IF r.ok THEN r.items ELSE <<>>

\* stream::iter(object.items.into_iter().map(..)) for one page
PageEntries(bucket, r) ==
    LET items == UnwrapOrDefault(r)
    IN  [i \in 1..Len(items) |-> OkEntry(bucket, items[i])]

\* .flat_map(..).collect::<Vec<Result<FileMeta>>>()
RECURSIVE FlatMap(_, _)
FlatMap(bucket, pages) ==
    IF pages = <<>> THEN <<>>
    ELSE PageEntries(bucket, Head(pages)) \o FlatMap(bucket, Tail(pages))

NoOutcome == [tag |-> "None", err |-> NoError, entries |-> <<>>]
OkOutcome(entries) == [tag |-> "Ok", err |-> NoError, entries |-> entries]
ErrOutcome(e) == [tag |-> "Err", err |-> e, entries |-> <<>>]
\* todo!() unwinds through the caller's future
PanicOutcome == [tag |-> "Panic", err |-> NoError, entries |-> <<>>]

\* no async trait call has been made yet
NoCall == [op |-> "none", uri |-> <<>>, listOk |-> FALSE, pages |-> <<>>,
           start |-> 0, length |-> 0]

\* a split at the LAST '/' (rsplit_once) in place of the first
ParseBucketPrefixLast(rest) ==
    IF Contains(rest, Slash)
    THEN LET i == CHOOSE k \in 1..Len(rest) :
                      /\ rest[k] = "/"
                      /\ \A j \in (k + 1)..Len(rest) : rest[j] # "/"
         IN  <<SubSeq(rest, 1, i - 1), SubSeq(rest, i + 1, Len(rest))>>
    ELSE <<rest, <<>>>>

\* (bucket, prefix) as list_file derives them from the text after the scheme
ParseBucketPrefix(rest) == SplitBucket(rest)

\* uri.split_once("gcs://")
SplitScheme(uri) == SplitOnce(uri, Scheme)

\* list_file(uri); listOk: the backend accepted the listing call; pages: its stream
ListFile(uri, listOk, pages) ==
    LET sp == SplitScheme(uri)
        bp == ParseBucketPrefix(sp.after)
    IN  /\ lastCall = NoCall
        /\ lastCall' = [op |-> "list_file", uri |-> uri, listOk |-> listOk,
                        pages |-> pages, start |-> 0, length |-> 0]
        /\ IF ~sp.found
           THEN /\ request' = NoRequest
                /\ outcome' = ErrOutcome(RemoteStoreError("No s3 scheme found"))
           ELSE /\ request' = ListRequest(bp[1], bp[2])
                /\ outcome' = IF listOk
                              THEN OkOutcome(FlatMap(bp[1], pages))
                              ELSE ErrOutcome(RemoteStoreError("backend"))
        /\ UNCHANGED syncVars

\* what the body of list_dir and of chunk_reader, todo!(), does
Todo == PanicOutcome

\* list_dir(_prefix, _delimiter)
ListDir(prefix, delimiter) ==
    /\ lastCall = NoCall
    /\ lastCall' = [op |-> "list_dir", uri |-> prefix, listOk |-> delimiter,
                    pages |-> <<>>, start |-> 0, length |-> 0]
    /\ request' = NoRequest
    /\ outcome' = Todo
    /\ UNCHANGED syncVars

\* chunk_reader(_start, _length)
ChunkReader(start, length) ==
    /\ lastCall = NoCall
    /\ lastCall' = [op |-> "chunk_reader", uri |-> <<>>, listOk |-> FALSE,
                    pages |-> <<>>, start |-> start, length |-> length]
    /\ request' = NoRequest
    /\ outcome' = Todo
    /\ UNCHANGED syncVars



(***************************************************************************)
(* The backend's objects, and its download calls                           *)
(***************************************************************************)
\* the paths of the SizedFiles readers are made for: "b/k", "c/k" and "b"
FilePaths == {<<"b", "/", "k">>, <<"c", "/", "k">>, <<"b">>}

HasObject(bucket, key) ==
    \/ bucket = <<"b">> /\ key = <<"k">>
    \/ bucket = <<"c">> /\ key = <<"k">>

ObjectBody(bucket, key) ==
    IF bucket = <<"b">> /\ key = <<"k">> THEN <<11, 12>>
    ELSE IF bucket = <<"c">> /\ key = <<"k">> THEN <<21>>
    ELSE <<>>

Min(a, b) == IF a <= b THEN a ELSE b

OkResp(bytes) == [ok |-> TRUE, bytes |-> bytes]
ErrResp == [ok |-> FALSE, bytes |-> <<>>]

\* client.object().download(bucket, key): the whole body, or an error
Download(bucket, key) ==
    IF HasObject(bucket, key) THEN {OkResp(ObjectBody(bucket, key))} ELSE {ErrResp}

\* client.object().download_range(bucket, key, start, length): the bytes of the
\* requested range that the object has.  The adapter does not say what a range
\* reaching past the object's end gives, so both answers of a range request are
\* possible there: the part that exists, or an error.
DownloadRange(bucket, key, start, length) ==
    LET body == ObjectBody(bucket, key)
        part == SubSeq(body, start + 1, Min(start + length, Len(body)))
    IN  IF ~HasObject(bucket, key) \/ start >= Len(body) THEN {ErrResp}
        ELSE IF start + length <= Len(body) THEN {OkResp(part)}
        ELSE {OkResp(part), ErrResp}

(***************************************************************************)
(* sync_chunk_reader: caller thread, worker thread, channel, clock          *)
(***************************************************************************)
\* the calls in flight: two callers, the least that can receive each other's result
Calls == {1, 2}

\* Duration::from_secs(10)
TimeoutSecs == 10

\* seconds by which the clock of a waiting caller advances in one step
TickSecs == 5

NoArgs == [path |-> <<>>, start |-> 0, length |-> 0]

NoResult == [tag |-> "None", bytes |-> <<>>, err |-> NoError]
OkResult(bytes) == [tag |-> "Ok", bytes |-> bytes, err |-> NoError]
ErrResult(e) == [tag |-> "Err", bytes |-> <<>>, err |-> e]

\* let (tx, rx) = mpsc::channel(): the channel the worker of call c sends on
TxShared(c) == 1
TxOf(c) == c

\* if length > 0 { download_range } else { download }
UseRangeAlways(length) == TRUE
UseRange(length) == length > 0

\* the ErrorKind given by the map_err around recv_timeout, for either RecvTimeoutError
RecvErrorKind(e) == "TimedOut"

\* recv_timeout: the deadline has passed
DeadlineNever(e) == FALSE
DeadlineReached(e) == e >= TimeoutSecs

\* tx.send(msg) on the channel of call t succeeds while its Receiver exists
SendAlways(t) == TRUE
SendSucceeds(t) == rxAlive[t]

\* the reply of the backend to the worker's request
BackendResponses(a) ==
    LET bk == SplitBucket(a.path)
    IN  IF UseRange(a.length)
        THEN DownloadRange(bk[1], bk[2], a.start, a.length)
        ELSE Download(bk[1], bk[2])

\* match resp { Ok(res) => Ok(Bytes::from(res)), Err(err) => Err(io::Error(Other, GCS)) }
WorkerMessage(resp) ==
    IF resp.ok THEN OkResult(resp.bytes) ELSE ErrResult(RemoteStoreError("backend"))

\* the caller's half up to the spawn: clone the path, make the channel, spawn the worker
SyncChunkReader(c, path, start, length) ==
    /\ pc[c] = "idle"
    /\ pc' = [pc EXCEPT ![c] = "waiting"]
    /\ args' = [args EXCEPT ![c] = [path |-> path, start |-> start, length |-> length]]
    /\ worker' = [worker EXCEPT ![c] = "spawned"]
    /\ chan' = [chan EXCEPT ![c] = <<>>]
    /\ txAlive' = [txAlive EXCEPT ![c] = TRUE]
    /\ rxAlive' = [rxAlive EXCEPT ![c] = TRUE]
    /\ elapsed' = [elapsed EXCEPT ![c] = 0]
    /\ UNCHANGED <<result, asyncVars>>

\* tokio::runtime::Builder::new_current_thread().enable_all().build().unwrap()
WorkerBuildRuntime(c) ==
    /\ worker[c] = "spawned"
    /\ \E built \in BOOLEAN :
          IF built
          THEN /\ worker' = [worker EXCEPT ![c] = "running"]
               /\ UNCHANGED txAlive
          ELSE \* unwrap panics; the unwinding drops the Sender the closure owns
               /\ worker' = [worker EXCEPT ![c] = "build_panicked"]
               /\ txAlive' = [txAlive EXCEPT ![TxOf(c)] = FALSE]
    /\ UNCHANGED <<pc, args, chan, rxAlive, elapsed, result, asyncVars>>

\* rt.block_on(async move { .. download .. ; tx.send(bytes).unwrap() })
WorkerDownloadAndSend(c) ==
    /\ worker[c] = "running"
    /\ \E resp \in BackendResponses(args[c]) :
          LET t == TxOf(c)
          IN  IF SendSucceeds(t)
              THEN /\ chan' = [chan EXCEPT ![t] = Append(@, WorkerMessage(resp))]
                   /\ worker' = [worker EXCEPT ![c] = "exited"]
              ELSE \* send fails on a dropped Receiver and unwrap panics
                   /\ chan' = chan
                   /\ worker' = [worker EXCEPT ![c] = "send_panicked"]
    /\ txAlive' = [txAlive EXCEPT ![TxOf(c)] = FALSE]
    /\ UNCHANGED <<pc, args, rxAlive, elapsed, result, asyncVars>>

\* time passes for a caller blocked in recv_timeout
Tick(c) ==
    /\ pc[c] = "waiting"
    /\ elapsed[c] < TimeoutSecs
    /\ elapsed' = [elapsed EXCEPT ![c] = @ + TickSecs]
    /\ UNCHANGED <<pc, args, worker, chan, txAlive, rxAlive, result, asyncVars>>

\* the caller returns; rx is dropped with whatever the channel still holds
Return(c, r) ==
    /\ pc' = [pc EXCEPT ![c] = "done"]
    /\ result' = [result EXCEPT ![c] = r]
    /\ rxAlive' = [rxAlive EXCEPT ![c] = FALSE]
    /\ UNCHANGED <<args, worker, txAlive, elapsed, asyncVars>>

\* recv_timeout returns Ok(msg); `??` passes a sent Err on, Ok(bytes) becomes the reader
CallerRecv(c) ==
    /\ pc[c] = "waiting"
    /\ chan[c] # <<>>
    /\ chan' = [chan EXCEPT ![c] = Tail(@)]
    /\ Return(c, Head(chan[c]))

\* recv_timeout returns Err(Disconnected): nothing sent and the Sender is gone
CallerDisconnected(c) ==
    /\ pc[c] = "waiting"
    /\ chan[c] = <<>>
    /\ ~txAlive[c]
    /\ chan' = chan
    /\ Return(c, ErrResult(IoError(RecvErrorKind("Disconnected"), "GCS", "Disconnected")))

\* recv_timeout returns Err(Timeout): nothing sent within the bound
CallerTimeout(c) ==
    /\ pc[c] = "waiting"
    /\ chan[c] = <<>>
    /\ txAlive[c]
    /\ DeadlineReached(elapsed[c])
    /\ chan' = chan
    /\ Return(c, ErrResult(IoError(RecvErrorKind("Timeout"), "GCS", "Timeout")))

(***************************************************************************)
(* Specifications                                                          *)
(***************************************************************************)
Init ==
    /\ lastCall = NoCall
    /\ request = NoRequest
    /\ outcome = NoOutcome
    /\ pc = [c \in Calls |-> "idle"]
    /\ args = [c \in Calls |-> NoArgs]
    /\ worker = [c \in Calls |-> "none"]
    /\ chan = [c \in Calls |-> <<>>]
    /\ txAlive = [c \in Calls |-> FALSE]
    /\ rxAlive = [c \in Calls |-> FALSE]
    /\ elapsed = [c \in Calls |-> 0]
    /\ result = [c \in Calls |-> NoResult]

\* a caller makes its one async trait call, with any arguments
CallListFile ==
    /\ lastCall = NoCall
    /\ \E uri \in Uris, listOk \in BOOLEAN, pages \in PageSeqs : ListFile(uri, listOk, pages)

CallListDir ==
    /\ lastCall = NoCall
    /\ \E prefix \in UriRests, delimiter \in BOOLEAN : ListDir(prefix, delimiter)

CallChunkReader ==
    /\ lastCall = NoCall
    /\ \E start \in 0..MaxStart, length \in 0..MaxLength : ChunkReader(start, length)

NextAsync == CallListFile \/ CallListDir \/ CallChunkReader

\* the (start, length) pairs of the calls
Ranges == (0..MaxStart) \X (0..MaxLength)

\* a whole-object read and a ranged read: the two branches of the worker
BranchRanges == {<<0, 0>>, <<MaxStart, MaxLength>>}

\* a caller enters sync_chunk_reader
StartCall(ranges) ==
    \E c \in Calls, path \in FilePaths, r \in ranges :
        SyncChunkReader(c, path, r[1], r[2])

\* the steps of the worker, the clock and the caller's recv_timeout
BridgeStep ==
    \/ \E c \in Calls : WorkerBuildRuntime(c)
    \/ \E c \in Calls : WorkerDownloadAndSend(c)
    \/ \E c \in Calls : Tick(c)
    \/ \E c \in Calls : CallerRecv(c)
    \/ \E c \in Calls : CallerDisconnected(c)
    \/ \E c \in Calls : CallerTimeout(c)

NextSync == StartCall(Ranges) \/ BridgeStep

\* the bridge under calls that take each branch of the worker; what the caller and
\* the worker do in time reads start and length nowhere else
NextBridge == StartCall(BranchRanges) \/ BridgeStep

SpecAsync == Init /\ [][NextAsync]_vars

SpecSync == Init /\ [][NextSync]_vars

SpecBridge == Init /\ [][NextBridge]_vars

\* the caller's thread runs and its clock advances; nothing is assumed of the worker
FairSpecCaller ==
    /\ SpecBridge
    /\ \A c \in Calls :
          /\ WF_vars(Tick(c))
          /\ WF_vars(CallerRecv(c))
          /\ WF_vars(CallerDisconnected(c))
          /\ WF_vars(CallerTimeout(c))

\* the worker's thread runs and the backend answers its request in the end
FairSpecWorker ==
    /\ SpecBridge
    /\ \A c \in Calls :
          /\ WF_vars(WorkerBuildRuntime(c))
          /\ WF_vars(WorkerDownloadAndSend(c))

(***************************************************************************)
(* Properties of the async trait methods (SpecAsync)                       *)
(***************************************************************************)
Chars(s) == {s[i] : i \in DOMAIN s}

ListFileCalled == lastCall.op = "list_file"

\* index of the first failed page of the response, 0 when no page failed
FirstFailedPage(pages) ==
    IF \E i \in DOMAIN pages : ~pages[i].ok
    THEN CHOOSE i \in DOMAIN pages :
            /\ ~pages[i].ok
            /\ \A j \in 1..(i - 1) : pages[j].ok
    ELSE 0

\* number of object records in the first n pages
RECURSIVE ItemsBefore(_, _)
ItemsBefore(pages, n) ==
    IF n = 0 THEN 0 ELSE ItemsBefore(pages, n - 1) + Len(pages[n].items)

\* C1: when a page of the listing response fails, the sequence list_file returns
\* holds the entries of the pages before it, then that error as its last item,
\* and nothing of that page or of a later one.
C1_PageErrorTerminates ==
    (ListFileCalled /\ outcome.tag = "Ok" /\ FirstFailedPage(lastCall.pages) # 0) =>
        LET n == ItemsBefore(lastCall.pages, FirstFailedPage(lastCall.pages) - 1)
        IN  /\ Len(outcome.entries) = n + 1
            /\ \A j \in 1..n : outcome.entries[j].ok
            /\ ~outcome.entries[n + 1].ok

\* C2: chunk_reader and list_dir end, for every input, by returning an error whose
\* GCSError is NotImplemented.
C2_UnsupportedReturnNotImplemented ==
    (lastCall.op \in {"list_dir", "chunk_reader"}) =>
        /\ outcome.tag = "Err"
        /\ outcome.err.inner = "NotImplemented"

\* C6: a URI that does not start with "gcs://" makes list_file fail with
\* io::Error(Other, GCSError::GCS) and no listing call reaches the backend.
C6_MissingSchemeFails ==
    (ListFileCalled /\ ~StartsWith(lastCall.uri, Scheme)) =>
        /\ outcome.tag = "Err"
        /\ outcome.err.kind = "Other"
        /\ outcome.err.inner = "GCS"
        /\ ~request.issued

\* the text of a URI after its leading "gcs://"
AfterScheme(uri) == SubSeq(uri, Len(Scheme) + 1, Len(uri))

\* C7: for a URI gcs://bucket/prefix the listing call is issued with the text before
\* the first '/' of the remainder as bucket and the text after it as prefix; for
\* gcs://bucket, with the whole remainder as bucket and the empty prefix.
C7_ParseBucketPrefix ==
    (ListFileCalled /\ StartsWith(lastCall.uri, Scheme)) =>
        LET rest == AfterScheme(lastCall.uri)
        IN  /\ request.issued
            /\ IF "/" \in Chars(rest)
               THEN /\ request.bucket \o Slash \o request.prefix = rest
                    /\ "/" \notin Chars(request.bucket)
               ELSE /\ request.bucket = rest
                    /\ request.prefix = <<>>

\* a URI with two separators: the split is at the first
C7_Witness ==
    /\ ListFileCalled
    /\ StartsWith(lastCall.uri, Scheme)
    /\ request.issued
    /\ request.bucket = <<"b">>
    /\ "/" \in Chars(request.prefix)

\* C8: every listing request sent to the backend has a non-empty bucket, and its
\* prefix is empty exactly when no '/' follows the bucket or nothing follows the '/'.
C8_BucketNonEmpty ==
    (ListFileCalled /\ request.issued) =>
        LET rest == SplitOnce(lastCall.uri, Scheme).after
        IN  /\ request.bucket # <<>>
            /\ (request.prefix = <<>>) <=>
                   \/ "/" \notin Chars(rest)
                   \/ rest = request.bucket \o Slash


(***************************************************************************)
(* Properties of sync_chunk_reader (SpecSync and its fair versions)        *)
(***************************************************************************)
\* the body of the object a file path names: <<>> when there is none
ExpectedBody(path) ==
    IF path = <<"b", "/", "k">> THEN <<11, 12>>
    ELSE IF path = <<"c", "/", "k">> THEN <<21>>
    ELSE <<>>

Returned(c) == pc[c] = "done"
ReturnedOk(c) == pc[c] = "done" /\ result[c].tag = "Ok"
ReturnedKind(c, kind) ==
    pc[c] = "done" /\ result[c].tag = "Err" /\ result[c].err.kind = kind

\* C3: a caller whose worker has sent nothing and has not ended returns only once
\* the 10 seconds have passed, and then with an error of kind TimedOut; and every
\* caller waiting in recv_timeout returns, whatever its worker does.
C3_TimedOutNotHang ==
    /\ [][\A c \in Calls :
            (pc[c] = "waiting" /\ pc'[c] = "done" /\ chan[c] = <<>> /\ txAlive[c]) =>
                /\ elapsed[c] >= TimeoutSecs
                /\ result'[c].tag = "Err"
                /\ result'[c].err.kind = "TimedOut"]_vars
    /\ \A c \in Calls : (pc[c] = "waiting") ~> (pc[c] = "done")

\* the caller has returned TimedOut while its worker is still at work
C3_Witness ==
    \E c \in Calls :
        /\ ReturnedKind(c, "TimedOut")
        /\ worker[c] \in {"spawned", "running"}
        /\ elapsed[c] >= TimeoutSecs

OwnMessages(a) == {WorkerMessage(r) : r \in BackendResponses(a)}

\* C5: under any interleaving of callers and workers a caller receives a result of
\* the download of its own file and range, never one another call's worker produced.
C5_OwnResult ==
    \A c \in Calls :
        /\ \A i \in DOMAIN chan[c] : chan[c][i] \in OwnMessages(args[c])
        /\ (Returned(c) /\ ~ReturnedKind(c, "TimedOut")) => result[c] \in OwnMessages(args[c])

\* one call has returned its bytes while the result of a call on another file is in flight
C5_Witness ==
    \E c, d \in Calls :
        /\ c # d
        /\ args[c].path # args[d].path
        /\ ReturnedOk(c)
        /\ pc[d] = "waiting"
        /\ chan[d] # <<>>
        /\ chan[d][1].tag = "Ok"
        /\ chan[d][1].bytes # result[c].bytes

WorkerEnded(c) == worker[c] \in {"exited", "build_panicked", "send_panicked"}

C10_TimedOutOnlyOnTimeout ==
    \A c \in Calls :
        /\ ReturnedKind(c, "TimedOut") =>
              /\ elapsed[c] >= TimeoutSecs
              /\ result[c].err.desc = "Timeout"
        /\ (Returned(c) /\ result[c].tag = "Err" /\ result[c].err.desc = "backend") =>
              result[c].err.kind = "Other"


====
